---- MODULE Spec2Model ----
(***************************************************************************)
(* Black Frame Detector (src/black_frame_detector.py): the queue           *)
(* orchestrator of BlackFrameDetectorV2 and the pure helpers it calls.     *)
(*                                                                         *)
(* The program is a single-threaded Qt application: every handler below    *)
(* runs to completion on the event loop, so one action is one handler      *)
(* (with every call it makes).  External processes are QProcess objects:   *)
(* they are parented to the window, so an object that self.probe_proc or   *)
(* self.ffmpeg_proc no longer refers to still delivers its signals.        *)
(*                                                                         *)
(* Conventions:                                                            *)
(*   - Python None is the integer None (-1); every optional number of the  *)
(*     program is >= 0 (the regular expressions only match digits).        *)
(*   - Text is a sequence of pieces; a piece is a record [k, v]: k is the  *)
(*     kind of text ("\n", "\r", "marker", "frame", ...), v its number.    *)
(*   - Queue positions are 0-based as in the source; file_queue[i + 1] is  *)
(*     the source's self._file_queue[i].                                   *)
(*   - Floating-point numbers are kept exact.  A duration in seconds is a  *)
(*     whole number of ticks of half a microsecond, a wall-clock time a    *)
(*     whole number of quarters of a second, and a quotient is the pair    *)
(*     [num, den] of its operands.                                         *)
(***************************************************************************)
EXTENDS Integers, Sequences, FiniteSets, TLC

None == -1

\* units of the durations and of the clock
TicksPerMicro == 2
QuartersPerSecond == 4
Seconds(n) == n * 1000000 * TicksPerMicro

(***************************************************************************)
(* Bounds of the model.                                                    *)
(***************************************************************************)
\* Spec: lists of up to NumPaths files, up to MaxStarts batches
NumPaths == 2
MaxStarts == 2
\* SpecBatch: one batch of up to BatchFiles files
BatchFiles == 3
\* reads of a process stream and start timeouts per run
MaxErrChunks == 1
\* SpecBurst: batches of up to BurstFiles files, up to MaxBursts reads of
\* standard error, each of 1, 500 or up to 500 + MaxOver detection lines
BurstFiles == 2
MaxBursts == 1
MaxOver == 1
\* SpecGrouping: batches of up to GroupingFiles files, up to MaxArrivals
\* detection lines at frames 1..ArrivalFrames, min_run_spin in 1..MaxMinRun
GroupingFiles == 2
MaxArrivals == 3
ArrivalFrames == 3
MaxTimeouts == 1
\* SpecProgress: up to ProgressFiles files, MaxOutChunks reads of standard
\* output, the clock within 0..MaxClock
ProgressFiles == 2
MaxOutChunks == 2
MaxClock == 2
\* SpecParse: lines of up to MaxFields pieces
MaxFields == 4
\* SpecSplit: streams of up to MaxLen characters
MaxLen == 4
\* SpecRanges: lists of up to MaxHits detections at frames 1..MaxFrame,
\* min_run_frames in 0..MaxMinRun
MaxHits == 3
MaxFrame == 4
MaxMinRun == 3

(***************************************************************************)
(* Text pieces.                                                            *)
(***************************************************************************)
Pc(k, v) == [k |-> k, v |-> v]
NL == Pc("\n", 0)
CR == Pc("\r", 0)
Marker == Pc("marker", 0)
\* the line "progress=end" of ffmpeg -progress
ProgressEnd == Pc("progress=end", 0)
\* an ordinary character
X == Pc("x", 0)

(***************************************************************************)
(* _split_complete_lines                                                   *)
(***************************************************************************)
RECURSIVE SplitNL(_)
\* str.split("\n"): the pieces between newlines, always at least one part;
\* computed by halves (the last part of the first half and the first part of
\* the second are one part), so that a long text is split at a small depth
SplitNL(buf) ==
    IF Len(buf) = 0 THEN <<buf>>
    ELSE IF Len(buf) = 1
         THEN (IF buf[1] = NL THEN << <<>>, <<>> >> ELSE <<buf>>)
         ELSE LET half == Len(buf) \div 2
                  a == SplitNL(SubSeq(buf, 1, half))
                  b == SplitNL(SubSeq(buf, half + 1, Len(buf)))
              IN  SubSeq(a, 1, Len(a) - 1) \o <<a[Len(a)] \o b[1]>> \o Tail(b)

\* variant: only one trailing carriage return is removed
RStripCR_Once(line) ==
    IF Len(line) > 0 /\ line[Len(line)] = CR
    THEN SubSeq(line, 1, Len(line) - 1)
    ELSE line

RECURSIVE RStripCR(_)
\* line.rstrip("\r"): every trailing carriage return is removed
RStripCR(line) ==
    IF Len(line) > 0 /\ line[Len(line)] = CR
    THEN RStripCR(SubSeq(line, 1, Len(line) - 1))
    ELSE line

IsNonEmpty(line) == Len(line) > 0

\* [line.rstrip("\r") for line in complete if line]
CompleteOf(parts) ==
    LET kept == SelectSeq(parts, IsNonEmpty)
    IN  [i \in 1..Len(kept) |-> RStripCR(kept[i])]

\* variant: the text after the last newline is not kept
SplitCompleteLines_DropsRest(buf) ==
    IF \A i \in 1..Len(buf) : buf[i] # NL
    THEN [lines |-> <<>>, rest |-> buf]
    ELSE LET parts == SplitNL(buf)
         IN  [lines |-> CompleteOf(SubSeq(parts, 1, Len(parts) - 1)),
              rest  |-> <<>>]

\* returns [lines, rest]
SplitCompleteLines(buf) ==
    IF \A i \in 1..Len(buf) : buf[i] # NL
    THEN [lines |-> <<>>, rest |-> buf]
    ELSE LET parts == SplitNL(buf)
         IN  [lines |-> CompleteOf(SubSeq(parts, 1, Len(parts) - 1)),
              rest  |-> parts[Len(parts)]]

(***************************************************************************)
(* BLACKFRAME_LINE_RE and _parse_blackframe_line                           *)
(***************************************************************************)
\* position of the first piece of kind k strictly after position from, or 0
FirstAfter(line, k, from) ==
    IF \E i \in (from + 1)..Len(line) : line[i].k = k
    THEN CHOOSE i \in (from + 1)..Len(line) :
             line[i].k = k /\ \A j \in (from + 1)..(i - 1) : line[j].k # k
    ELSE 0

\* an optional group (?:.*?\bkey:(...))? tried at position from: [at, val]
OptGroup(line, k, from) ==
    LET i == FirstAfter(line, k, from)
    IN  IF i = 0 THEN [at |-> from, val |-> None]
                 ELSE [at |-> i, val |-> line[i].v]

NoHit == [frame |-> None, time_s |-> None, pblack |-> None, pts |-> None]

\* None (NoHit) when the line does not match, else the BlackFrameHit
ParseBlackframeLine(line) ==
    LET m == FirstAfter(line, "marker", 0)
        f == IF m = 0 THEN 0 ELSE FirstAfter(line, "frame", m)
    IN  IF f = 0 THEN NoHit
        ELSE LET pb == OptGroup(line, "pblack", f)
                 ps == OptGroup(line, "pts", pb.at)
                 t  == OptGroup(line, "t", ps.at)
             IN  [frame |-> line[f].v, time_s |-> t.val,
                  pblack |-> pb.val, pts |-> ps.val]

\* variant: a line that does not match ends the parsing of the lines
ParseLines_StopsAtMismatch(lines) ==
    LET bad == {i \in DOMAIN lines : ParseBlackframeLine(lines[i]) = NoHit}
        n == IF bad = {} THEN Len(lines) ELSE (CHOOSE i \in bad : \A j \in bad : i <= j) - 1
    IN  [i \in 1..n |-> ParseBlackframeLine(lines[i])]

\* the hits of the lines that match, in line order
ParseLines(lines) ==
    LET IsHit(h) == h # NoHit
    IN  SelectSeq([i \in 1..Len(lines) |-> ParseBlackframeLine(lines[i])], IsHit)

(***************************************************************************)
(* build_ranges                                                            *)
(***************************************************************************)
Min(S) == CHOOSE x \in S : \A y \in S : x <= y
Max(S) == CHOOSE x \in S : \A y \in S : y <= x

RECURSIVE SortBetween(_, _, _)
\* the stable sort of detections whose frames are in lo..hi: those of the
\* lower half of the frames in their order, then those of the upper half
SortBetween(hs, lo, hi) ==
    IF hs = <<>> \/ lo = hi THEN hs
    ELSE LET mid == (lo + hi) \div 2
             IsLow(h) == h.frame <= mid
             IsHigh(h) == h.frame > mid
         IN  SortBetween(SelectSeq(hs, IsLow), lo, mid)
                 \o SortBetween(SelectSeq(hs, IsHigh), mid + 1, hi)

\* sorted(hits, key=lambda h: h.frame), a stable sort
SortByFrame(hs) ==
    IF hs = <<>> THEN <<>>
    ELSE LET frames == {hs[i].frame : i \in DOMAIN hs}
         IN  SortBetween(hs, Min(frames), Max(frames))

RECURSIVE SumPb(_)
\* sum(pvals), by halves
SumPb(group) ==
    IF group = <<>> THEN 0
    ELSE IF Len(group) = 1
         THEN (IF group[1].pblack # None THEN group[1].pblack ELSE 0)
         ELSE LET half == Len(group) \div 2
              IN  SumPb(SubSeq(group, 1, half))
                      + SumPb(SubSeq(group, half + 1, Len(group)))

\* variant: every group gives a range
RunIsKept_All(length, min_run_frames) == TRUE

\* variant: a group of exactly min_run_frames frames gives no range
RunIsKept_Strict(length, min_run_frames) == length > min_run_frames

\* the gate of finalize: a group shorter than min_run_frames gives no range
RunIsKept(length, min_run_frames) == ~(length < min_run_frames)

\* variant: every detection of the group counts, with or without a value
PresentValues_All(group) == 1..Len(group)

\* pvals of finalize, as the positions of the detections that carry a pblack
PresentValues(group) == {i \in 1..Len(group) : group[i].pblack # None}

\* a mean is kept exact as the pair sum / n; NoMean is the mean that is None
NoMean == [sum |-> None, n |-> 0]

\* finalize(group) for a non-empty group: <<>> for None, else <<range>>
Finalize(group, min_run_frames) ==
    LET start  == group[1]
        end    == group[Len(group)]
        length == end.frame - start.frame + 1
        pidx   == PresentValues(group)
    IN  IF ~RunIsKept(length, min_run_frames) THEN <<>>
        ELSE << [start_frame   |-> start.frame,
                 end_frame     |-> end.frame,
                 start_time_s  |-> start.time_s,
                 end_time_s    |-> end.time_s,
                 length_frames |-> length,
                 avg_pblack    |-> IF pidx = {} THEN NoMean
                                   ELSE [sum |-> SumPb(group), n |-> Cardinality(pidx)],
                 min_pblack    |-> IF pidx = {} THEN None
                                   ELSE Min({group[i].pblack : i \in pidx})] >>

RECURSIVE Groups(_)
\* the values cur takes in the for loop over hits_sorted, for a non-empty
\* list: a detection joins the group of the one before it when its frame is
\* the next frame, and starts a group when it is not; computed by halves
Groups(hs) ==
    IF Len(hs) = 1 THEN <<hs>>
    ELSE LET half == Len(hs) \div 2
             a == Groups(SubSeq(hs, 1, half))
             b == Groups(SubSeq(hs, half + 1, Len(hs)))
         IN  IF hs[half + 1].frame = hs[half].frame + 1
             THEN SubSeq(a, 1, Len(a) - 1) \o <<a[Len(a)] \o b[1]>> \o Tail(b)
             ELSE a \o b

\* the for loop over hits_sorted[1:], then the final finalize(cur): the
\* ranges of the groups that finalize keeps, in order
RangesLoop(hits_sorted, min_run_frames) ==
    LET IsKept(g) == Finalize(g, min_run_frames) # <<>>
        kept == SelectSeq(Groups(hits_sorted), IsKept)
    IN  [i \in 1..Len(kept) |-> Finalize(kept[i], min_run_frames)[1]]

BuildRanges(hs, min_run_frames) ==
    IF hs = <<>> THEN <<>>
    ELSE RangesLoop(SortByFrame(hs), min_run_frames)


(***************************************************************************)
(* State of BlackFrameDetectorV2 (__init__, lines 292-343).                *)
(*                                                                         *)
(* procs maps the id of every QProcess object that can still act (or that  *)
(* an attribute refers to) to [kind, path, st, code, out, batch]: st is    *)
(* "running" (alive), "exited" (dead, its finished signal not yet          *)
(* delivered) or "gone" (finished delivered, or never started); path is    *)
(* the path captured by the lambda connected to finished; out is the       *)
(* unread standard output of a probe; batch is the number of the batch     *)
(* that launched it.                                                       *)
(* probe_proc and ffmpeg_proc are ids, 0 for None.                         *)
(* starts, timeouts and chunks count the batches started, the start        *)
(* timeouts and the stream reads of the run, to bound it.                  *)
(* hist is the history of the current batch, kept for the properties only: *)
(* its number, whether it was cancelled, the paths probed and analyzed in  *)
(* launch order, the exit code each path was last committed with, the      *)
(* lines given to the progress parser and the exceptions the progress      *)
(* parser and the flush raised, in order, and the batches of rows added to frames_table since _start       *)
(* emptied it, each with the file its rows are labelled with.              *)
(* progress_max and progress_value are the maximum and the value of the    *)
(* progress bar (its minimum is always 0, a maximum of 0 is the busy bar); *)
(* now is the wall clock that time.time() reads.                           *)
(* call is the state of a run of one of the two pure functions by itself   *)
(* (_split_complete_lines fed a stream chunk by chunk, build_ranges        *)
(* applied to a list); it is NoCall in the runs of the window.             *)
(* file_list is the list widget's paths; every listed file exists, so      *)
(* _start queues them all and item_text is indexed like the queue.         *)
(***************************************************************************)
VARIABLES file_list, file_queue, current_queue_index, queue_active, running,
          all_hits, all_ranges, hits, pending_hits, stderr_buf, stdout_buf,
          video_duration_s, total_video_duration_s, flush_timer,
          item_text, progress_format, procs, probe_proc, ffmpeg_proc,
          min_run_spin, group_ranges_checkbox, starts, timeouts, chunks, hist,
          video_fps, analysis_start_time, progress_max, progress_value, now,
          call

\* the window's variables
window == <<file_list, file_queue, current_queue_index, queue_active, running,
            all_hits, all_ranges, hits, pending_hits, stderr_buf, stdout_buf,
            video_duration_s, total_video_duration_s, flush_timer,
            item_text, progress_format, procs, probe_proc, ffmpeg_proc,
            min_run_spin, group_ranges_checkbox, starts, timeouts, chunks, hist,
            video_fps, analysis_start_time, progress_max, progress_value, now>>

vars == <<window, call>>

\* the window's state as one record, so that handlers compose like calls
St == [file_queue |-> file_queue, idx |-> current_queue_index,
       queue_active |-> queue_active, running |-> running,
       all_hits |-> all_hits, all_ranges |-> all_ranges, hits |-> hits,
       pending_hits |-> pending_hits, stderr_buf |-> stderr_buf,
       stdout_buf |-> stdout_buf, video_duration_s |-> video_duration_s,
       total_video_duration_s |-> total_video_duration_s,
       flush_timer |-> flush_timer, item_text |-> item_text,
       progress_format |-> progress_format, procs |-> procs,
       probe_proc |-> probe_proc, ffmpeg_proc |-> ffmpeg_proc, hist |-> hist,
       video_fps |-> video_fps, analysis_start_time |-> analysis_start_time,
       progress_max |-> progress_max, progress_value |-> progress_value,
       now |-> now]

Fmt(kind, i, total, frames, ranges, duration) ==
    [kind |-> kind, idx |-> i, total |-> total, frames |-> frames,
     ranges |-> ranges, duration |-> duration]

\* f with key k set to v (dict assignment)
Put(f, k, v) == [x \in DOMAIN f \cup {k} |-> IF x = k THEN v ELSE f[x]]

RECURSIVE SumLen(_, _)
\* sum(len(h) for h in d.values())
SumLen(d, keys) ==
    IF keys = {} THEN 0
    ELSE LET k == CHOOSE x \in keys : TRUE
         IN  Len(d[k]) + SumLen(d, keys \ {k})

(***************************************************************************)
(* QProcess objects                                                        *)
(***************************************************************************)
KillCode == 9
ExitCodes == {0, 1}
\* how a probe can end by itself: exit code and standard output
ProbeResults == { <<0, "full">>, <<0, "empty">>, <<1, "empty">> }
\* the reports of a probe: nothing, white space only, text that is not JSON,
\* JSON without format.duration, JSON without streams, the full report
ProbeReports == {"empty", "blank", "malformed", "no_duration", "no_streams", "full"}
\* every way a probe can end by itself
AllProbeResults == {<<0, o>> : o \in ProbeReports} \cup { <<1, "empty">>, <<1, "full">> }
ProbeStartOutcomes == {"started", "failed"}
FfmpegStartOutcomes == {"started", "failed", "timeout"}

\* the full report with another format.duration: half a microsecond, one
\* microsecond and a half, zero
DurationReports == {"tiny", "short", "zero"}
\* the full report with other frame rates in streams[0]: avg_frame_rate "0/0"
\* with r_frame_rate "25/1", neither field, r_frame_rate "25/1" alone,
\* avg_frame_rate "30/0", avg_frame_rate "0/1"
RateReports == {"rate_0_0", "no_rate", "r_only", "den_0", "num_0"}

\* .strip() of the decoded report
Strip(out) == IF out = "blank" THEN "empty" ELSE out

\* json.loads raises on the report
NotJson(out) == out = "malformed"

\* data["streams"][0] exists
HasStreams(out) == out \in {"full", "no_duration"} \cup DurationReports \cup RateReports

\* float(format.duration) of a probe report, None when the field is missing
DurationOf(out) ==
    IF out \in {"full", "no_streams"} \cup RateReports THEN Seconds(5)
    ELSE IF out = "tiny" THEN 1
    ELSE IF out = "short" THEN 3
    ELSE IF out = "zero" THEN 0
    ELSE None

\* a frame-rate string "num/den", and the field that is missing
Rate(num, den) == [num |-> num, den |-> den]
NoField == Rate(None, None)
\* the frame rate that is None
NoRate == Rate(None, 0)

\* stream.get("avg_frame_rate") and stream.get("r_frame_rate")
AvgFrameRate(out) ==
    IF out \in {"no_rate", "r_only"} THEN NoField
    ELSE IF out = "rate_0_0" THEN Rate(0, 0)
    ELSE IF out = "den_0" THEN Rate(30, 0)
    ELSE IF out = "num_0" THEN Rate(0, 1)
    ELSE Rate(30, 1)

RFrameRate(out) ==
    IF out \in {"rate_0_0", "r_only"} THEN Rate(25, 1) ELSE NoField

\* variant: a denominator of 0 gives the rate 0
RateValue_ZeroForNoDen(rate) == IF rate.den # 0 THEN rate ELSE Rate(0, 1)

\* float(num) / float(den) if float(den) != 0 else None, line 841
RateValue(rate) == IF rate.den # 0 THEN rate ELSE NoRate

\* lines 839-841: the first of the two fields that is there, else "0/0"
FrameRate(out) ==
    LET avg == AvgFrameRate(out)
        r == RFrameRate(out)
    IN  RateValue(IF avg # NoField THEN avg ELSE IF r # NoField THEN r ELSE Rate(0, 0))

\* QProgressBar as constructed: range 0..100, no value
QtDefaultMax == 100
QtNoValue == -1
DeterminateMax == 1000

\* QProgressBar.setRange(0, max): a value above the new maximum is reset
SetRange(s, max) ==
    IF max = s.progress_max THEN s
    ELSE [s EXCEPT !.progress_max = max,
                   !.progress_value = IF @ > max THEN QtNoValue ELSE @]

\* _set_progress_determinate
SetProgressDeterminate(s, determinate) ==
    SetRange(s, IF determinate THEN DeterminateMax ELSE 0)

\* QProgressBar.setValue: a value outside the range is ignored, but for the
\* busy bar
SetValue(s, v) ==
    IF (v > s.progress_max \/ v < 0) /\ s.progress_max # 0 THEN s
    ELSE [s EXCEPT !.progress_value = v]

NewPid(ps) == CHOOSE n \in 1..(Cardinality(DOMAIN ps) + 1) :
                  n \notin DOMAIN ps /\ \A m \in 1..(n - 1) : m \in DOMAIN ps

Proc(kind, path, st, batch) ==
    [kind |-> kind, path |-> path, st |-> st, code |-> 0, out |-> "empty",
     batch |-> batch]

\* QProcess.kill(): a running process dies at once; its finished signal
\* follows from the event loop.  A process that is not running is untouched.
Kill(ps, pid) ==
    IF pid # 0 /\ ps[pid].st = "running"
    THEN [ps EXCEPT ![pid].st = "exited", ![pid].code = KillCode]
    ELSE ps

\* objects that can no longer act and that no attribute refers to are dropped;
\* of a dead object that an attribute still refers to only the unread output counts
Collect(s) ==
    LET keep == {p \in DOMAIN s.procs :
                    s.procs[p].st # "gone" \/ p \in {s.probe_proc, s.ffmpeg_proc}}
    IN  [s EXCEPT !.procs =
            [p \in keep |-> IF s.procs[p].st = "gone"
                            THEN [s.procs[p] EXCEPT !.path = 0, !.code = 0, !.batch = 0]
                            ELSE s.procs[p]]]

(***************************************************************************)
(* Handlers, as functions from the state record to the state record.       *)
(* po is the outcome of starting a probe, fo that of starting ffmpeg.      *)
(***************************************************************************)

\* _on_all_files_finished
OnAllFilesFinished(s) ==
    [SetValue(SetProgressDeterminate(s, TRUE), DeterminateMax)
       EXCEPT !.queue_active = FALSE,
              !.running = FALSE,
              !.progress_format =
                  Fmt("Done", 0, Len(s.file_queue),
                      SumLen(s.all_hits, DOMAIN s.all_hits),
                      SumLen(s.all_ranges, DOMAIN s.all_ranges),
                      s.total_video_duration_s)]

\* _run_ffprobe: a process that fails to start never emits finished
RunFfprobe(s, path, po) ==
    LET pid == NewPid(s.procs)
    IN  [s EXCEPT !.procs = Put(s.procs, pid,
                        Proc("probe", path, IF po = "started" THEN "running" ELSE "gone",
                             s.hist.batch)),
                  !.probe_proc = pid,
                  !.hist.probed = Append(@, path)]

\* the guard of _start_next_file
QueueExhausted(i, n) == i >= n

\* _start_next_file
StartNextFile(s, po) ==
    IF QueueExhausted(s.idx, Len(s.file_queue)) THEN OnAllFilesFinished(s)
    ELSE LET path == s.file_queue[s.idx + 1]
         IN  RunFfprobe([s EXCEPT !.hits = <<>>,
                                  !.pending_hits = <<>>,
                                  !.stderr_buf = <<>>,
                                  !.stdout_buf = <<>>,
                                  !.video_duration_s = None,
                                  !.video_fps = NoRate,
                                  !.analysis_start_time = None,
                                  !.progress_format =
                                      Fmt("Probing", s.idx + 1, Len(s.file_queue), 0, 0, 0)],
                        path, po)

\* what _record_failure_and_advance stores for the file
FailureHits(hs) == <<>>

\* the index after a file is done
NextIndex(i) == i + 1

\* variant: a failure stops the queue
AdvanceAfterFailure_Halts(active) == FALSE

\* whether _record_failure_and_advance goes on to the next file
AdvanceAfterFailure(active) == active

\* _mark_list_item_failed, and the item text of the success path:
\* file_list.item(index) is None when index is out of range
MarkItem(texts, index, label) ==
    IF index + 1 \in DOMAIN texts THEN [texts EXCEPT ![index + 1] = label] ELSE texts

\* _record_failure_and_advance
RecordFailureAndAdvance(s, path, label, po) ==
    LET s1 == [s EXCEPT !.all_hits = Put(s.all_hits, path, FailureHits(s.hits)),
                        !.all_ranges = Put(s.all_ranges, path, <<>>),
                        !.item_text = MarkItem(s.item_text, s.idx, label),
                        !.idx = NextIndex(s.idx)]
    IN  IF AdvanceAfterFailure(s1.queue_active) THEN StartNextFile(s1, po) ELSE s1

\* variant: cancel also resets the results, as _start does
Cancel_ClearsStore(s) ==
    [s EXCEPT !.queue_active = FALSE,
              !.procs = Kill(Kill(s.procs, s.ffmpeg_proc), s.probe_proc),
              !.flush_timer = FALSE,
              !.running = FALSE,
              !.all_hits = <<>>,
              !.all_ranges = <<>>,
              !.progress_format =
                  Fmt("Cancelled", s.idx, Len(s.file_queue), 0, 0, 0),
              !.hist.cancelled = TRUE]

\* _cancel
Cancel(s) ==
    [s EXCEPT !.queue_active = FALSE,
              !.procs = Kill(Kill(s.procs, s.ffmpeg_proc), s.probe_proc),
              !.flush_timer = FALSE,
              !.running = FALSE,
              !.progress_format =
                  Fmt("Cancelled", s.idx, Len(s.file_queue), 0, 0, 0),
              !.hist.cancelled = TRUE]

\* variant: a start failure is labelled like an exit failure
StartFailureLabel_AsExitFailure == "FAILED"

\* the label _run_ffmpeg gives a file whose process did not start, line 891
StartFailureLabel == "FAILED - ffmpeg start"

\* self.video_duration_s and self.video_duration_s > 0
DurationKnown(d) == d # None /\ d > 0

\* _run_ffmpeg: waitForStarted(3000) returns False both when the process
\* cannot start and when it has not started in time; in the second case the
\* process object is left as it is, starting
RunFfmpeg(s, path, fo, po) ==
    LET pid == NewPid(s.procs)
        s0 == IF DurationKnown(s.video_duration_s)
              THEN SetValue(SetProgressDeterminate(s, TRUE), 0)
              ELSE SetProgressDeterminate(s, FALSE)
        s1 == [s0 EXCEPT !.procs = Put(s.procs, pid,
                              Proc("ffmpeg", path, IF fo = "failed" THEN "gone" ELSE "running",
                                   s.hist.batch)),
                         !.ffmpeg_proc = pid,
                         !.hist.analyzed = Append(@, path),
                         !.progress_format =
                             Fmt("Analyzing", s.idx + 1, Len(s.file_queue), 0, 0, 0)]
    IN  IF fo # "started"
        THEN RecordFailureAndAdvance(s1, path, StartFailureLabel, po)
        ELSE [s1 EXCEPT !.analysis_start_time = s.now, !.flush_timer = TRUE]

\* the test of _on_ffprobe_finished, line 826
ProbeFailed(exit_code, out) == exit_code # 0 \/ out = "empty"

\* _on_ffprobe_finished(path, exit_code): the output is read from the object
\* self.probe_proc refers to.  The duration is added to the total before the
\* streams are looked at; any exception of the try block leaves the duration
\* unknown.
OnFfprobeFinished(s, path, exit_code, fo, po) ==
    IF s.probe_proc = 0 THEN s
    ELSE LET out == Strip(s.procs[s.probe_proc].out)
             s1  == [s EXCEPT !.procs[s.probe_proc].out = "empty"]
         IN  IF ProbeFailed(exit_code, out)
             THEN RecordFailureAndAdvance(s1, path, "FAILED - probe", po)
             ELSE LET d  == IF NotJson(out) THEN None ELSE DurationOf(out)
                      s2 == [s1 EXCEPT !.video_duration_s =
                                     IF HasStreams(out) THEN d ELSE None,
                                 !.video_fps =
                                     IF NotJson(out) \/ ~HasStreams(out) THEN NoRate
                                     ELSE FrameRate(out),
                                 !.total_video_duration_s =
                                     IF d # None /\ d # 0 THEN @ + d ELSE @]
                  IN  RunFfmpeg(s2, path, fo, po)

BatchLimit == 500

\* the handler ends with the exception e
Raised(s, e) == [s EXCEPT !.hist.faults = Append(@, e)]

\* _flush_pending_hits: [s, fault]; the rows are taken off the deque before
\* the file name is looked up, and the lookup raises IndexError when the
\* index is past the queue
FlushPendingHits(s) ==
    IF s.pending_hits = <<>> THEN [s |-> s, fault |-> FALSE]
    ELSE LET k == IF Len(s.pending_hits) < BatchLimit THEN Len(s.pending_hits)
                  ELSE BatchLimit
             s1 == [s EXCEPT !.pending_hits = SubSeq(@, k + 1, Len(@))]
             batch == [file |-> s.file_queue[s.idx + 1],
                       hits |-> SubSeq(s.pending_hits, 1, k)]
         IN  IF s.idx < Len(s.file_queue)
             THEN [s |-> [s1 EXCEPT !.hist.rows = Append(@, batch)], fault |-> FALSE]
             ELSE [s |-> Raised(s1, "IndexError"), fault |-> TRUE]

\* the hits appended for a list of complete lines
AddHits(s, lines) ==
    LET new == ParseLines(lines)
    IN  [s EXCEPT !.hits = @ \o new, !.pending_hits = @ \o new]

\* _on_ffmpeg_stderr_chunk, the chunk being that of the object
\* self.ffmpeg_proc refers to
OnFfmpegStderrChunk(s, chunk) ==
    LET r == SplitCompleteLines(s.stderr_buf \o chunk)
    IN  AddHits([s EXCEPT !.stderr_buf = r.rest], r.lines)

\* PROGRESS_END_RE.match(line)
IsProgressEnd(line) == line = <<ProgressEnd>>

\* PROGRESS_OUT_TIME_MS_RE.match(line): the line "out_time_ms=<v>"
IsOutTime(line) == Len(line) = 1 /\ line[1].k = "out_time_ms"

\* int(num * k / den) for a quotient num / den >= 0 and k = 100 or 1000,
\* without a product above the largest integer
Percent(q) == (100 * q.num) \div q.den
PerMille(q) ==
    10 * Percent(q) + (10 * ((100 * q.num) % q.den)) \div q.den

\* the elapsed time below which no ETA is shown: 0.5 s
WarmUp == 2

\* the format with the ETA, line 957: pct and the remaining whole seconds
EtaFmt(i, total, pct, remaining) ==
    [kind |-> "Remaining", idx |-> i, total |-> total, pct |-> pct,
     remaining |-> remaining]

\* max(0, elapsed / frac - elapsed) in whole seconds, for frac > 0
Remaining(elapsed, frac) ==
    LET r == (elapsed * (frac.den - frac.num)) \div (QuartersPerSecond * frac.num)
    IN  IF r < 0 THEN 0 ELSE r

\* whether _update_progress_eta returns before it computes anything
EtaSuppressed(frac, start, elapsed) ==
    frac.num <= 0 \/ start = None \/ elapsed < WarmUp

\* _update_progress_eta(frac): [s, fault]; the file name lookup of line 941
\* raises IndexError when the index is past the queue
UpdateProgressEta(s, frac) ==
    LET elapsed == s.now - s.analysis_start_time
    IN  IF EtaSuppressed(frac, s.analysis_start_time, elapsed)
        THEN [s |-> s, fault |-> FALSE]
        ELSE IF ~(s.idx < Len(s.file_queue))
             THEN [s |-> s, fault |-> TRUE]
             ELSE [s |-> [s EXCEPT !.progress_format =
                             EtaFmt(s.idx + 1, Len(s.file_queue), Percent(frac),
                                    Remaining(elapsed, frac))],
                   fault |-> FALSE]

\* int(self.video_duration_s * 1_000_000), line 912
DurUs(d) == d \div TicksPerMicro

\* max(0.0, min(1.0, out_time_us / dur_us)) for dur_us > 0
Frac(out_time_us, dur_us) ==
    IF out_time_us > dur_us THEN Rate(dur_us, dur_us) ELSE Rate(out_time_us, dur_us)

RECURSIVE ProgressLines(_, _)
\* the loop of _on_ffmpeg_stdout_chunk over the complete lines; the division
\* of line 913 raises ZeroDivisionError when dur_us is 0 and the file name
\* lookups of lines 926 and 941 raise IndexError when the index is past the
\* queue, which ends the handler
ProgressLines(s, lines) ==
    IF lines = <<>> THEN s
    ELSE LET line == Head(lines)
             s1 == [s EXCEPT !.hist.progress_lines = Append(@, line)]
         IN  IF IsOutTime(line) /\ DurationKnown(s.video_duration_s)
             THEN LET dur_us == DurUs(s.video_duration_s)
                      frac == Frac(line[1].v, dur_us)
                      e == UpdateProgressEta(SetValue(s1, PerMille(frac)), frac)
                  IN  IF dur_us = 0 THEN Raised(s1, "ZeroDivisionError")
                      ELSE IF e.fault THEN Raised(e.s, "IndexError")
                      ELSE ProgressLines(e.s, Tail(lines))
             ELSE IF IsProgressEnd(line) /\ DurationKnown(s.video_duration_s)
             THEN LET s2 == SetValue(s1, DeterminateMax)
                  IN  IF s.idx < Len(s.file_queue)
                      THEN ProgressLines(
                               [s2 EXCEPT !.progress_format =
                                   Fmt("Finishing", s.idx + 1, Len(s.file_queue), 0, 0, 0)],
                               Tail(lines))
                      ELSE Raised(s2, "IndexError")
             ELSE ProgressLines(s1, Tail(lines))

\* variant: standard output is collected in the buffer of standard error
OnFfmpegStdoutChunk_SharedBuffer(s, chunk) ==
    LET r == SplitCompleteLines(s.stderr_buf \o chunk)
    IN  ProgressLines([s EXCEPT !.stderr_buf = r.rest], r.lines)

\* _on_ffmpeg_stdout_chunk, the chunk being that of the object
\* self.ffmpeg_proc refers to
OnFfmpegStdoutChunk(s, chunk) ==
    LET r == SplitCompleteLines(s.stdout_buf \o chunk)
    IN  ProgressLines([s EXCEPT !.stdout_buf = r.rest], r.lines)

\* the success test of _on_ffmpeg_finished, line 1044
ExitFailed(exit_code) == exit_code # 0

\* whether the success path goes on to the next file, line 1077
AdvanceAfterSuccess(active, i, n) == active /\ i < n

\* variant: the detections are committed in the order of their arrival
SortHits_ArrivalOrder(hs) == hs

\* self.hits.sort(key=lambda h: h.frame), line 1050
SortHits(hs) == SortByFrame(hs)

\* _on_ffmpeg_finished(path, exit_code), after the timer stop and first flush
FfmpegCommit(s, path, exit_code, min_run, grouped, po) ==
    IF ExitFailed(exit_code)
    THEN RecordFailureAndAdvance([s EXCEPT !.hist.codes = Put(@, path, exit_code)],
                                 path, "FAILED", po)
    ELSE LET hs == SortHits(s.hits)
             rs == IF grouped THEN BuildRanges(hs, min_run) ELSE <<>>
             s1 == [s EXCEPT !.hist.codes = Put(@, path, exit_code),
                             !.all_hits = Put(s.all_hits, path, hs),
                             !.all_ranges = Put(s.all_ranges, path, rs),
                             !.hits = <<>>,
                             !.item_text = MarkItem(s.item_text, s.idx, "frames"),
                             !.idx = NextIndex(s.idx)]
         IN  IF AdvanceAfterSuccess(s1.queue_active, s1.idx, Len(s1.file_queue))
             THEN StartNextFile(s1, po)
             ELSE OnAllFilesFinished(s1)

\* _on_ffmpeg_finished(path, exit_code); an exception raised by a flush ends
\* the handler where it is
OnFfmpegFinished(s, path, exit_code, min_run, grouped, po) ==
    LET f1 == FlushPendingHits([s EXCEPT !.flush_timer = FALSE])
    IN  IF f1.fault THEN f1.s
        ELSE IF f1.s.stderr_buf = <<>>
             THEN FfmpegCommit(f1.s, path, exit_code, min_run, grouped, po)
             ELSE LET s2 == AddHits([f1.s EXCEPT !.stderr_buf = <<>>],
                                    <<RStripCR(f1.s.stderr_buf)>>)
                      f2 == FlushPendingHits(s2)
                  IN  IF f2.fault THEN f2.s
                      ELSE FfmpegCommit(f2.s, path, exit_code, min_run, grouped, po)

NoHist == [batch |-> 0, cancelled |-> FALSE, probed |-> <<>>, analyzed |-> <<>>,
           codes |-> <<>>, progress_lines |-> <<>>, faults |-> <<>>,
           rows |-> <<>>]

\* _start (the queue is not empty), with the _start_next_file it ends in
Start(s, queue, po) ==
    StartNextFile([SetValue(SetProgressDeterminate(s, TRUE), 0)
                     EXCEPT !.hist = [NoHist EXCEPT !.batch = s.hist.batch + 1],
                            !.file_queue = queue,
                            !.idx = 0,
                            !.queue_active = TRUE,
                            !.all_hits = <<>>,
                            !.all_ranges = <<>>,
                            !.hits = <<>>,
                            !.pending_hits = <<>>,
                            !.stderr_buf = <<>>,
                            !.stdout_buf = <<>>,
                            !.progress_format = Fmt("Ready", 0, 0, 0, 0, 0),
                            !.item_text = [i \in 1..Len(queue) |-> "name"],
                            !.total_video_duration_s = 0,
                            !.running = TRUE],
                  po)


(***************************************************************************)
(* The state machine.                                                      *)
(***************************************************************************)
\* the lists of distinct paths the list widget holds
Lists(most) == {[i \in 1..n |-> i] : n \in 1..most}

\* what ffmpeg can write to standard error in one read: a complete detection
\* line, and a detection line without its newline
ErrChunks == { <<Marker, Pc("frame", 1), Pc("pblack", 98), NL>>,
               <<Marker, Pc("frame", 1), Pc("pblack", 98)>> }

NoCall == [fn |-> "none"]

WindowInit(most) ==
    /\ file_list \in Lists(most)
    /\ file_queue = <<>>
    /\ current_queue_index = 0
    /\ queue_active = FALSE
    /\ running = FALSE
    /\ all_hits = <<>>
    /\ all_ranges = <<>>
    /\ hits = <<>>
    /\ pending_hits = <<>>
    /\ stderr_buf = <<>>
    /\ stdout_buf = <<>>
    /\ video_duration_s = None
    /\ total_video_duration_s = 0
    /\ flush_timer = FALSE
    /\ item_text = <<>>
    /\ progress_format = Fmt("Ready", 0, 0, 0, 0, 0)
    /\ procs = <<>>
    /\ probe_proc = 0
    /\ ffmpeg_proc = 0
    /\ min_run_spin = 1
    /\ group_ranges_checkbox = TRUE
    /\ starts = 0
    /\ timeouts = 0
    /\ chunks = 0
    /\ hist = NoHist
    /\ video_fps = NoRate
    /\ analysis_start_time = None
    /\ progress_max = QtDefaultMax
    /\ progress_value = QtNoValue
    /\ now = 0

InitWith(most) == WindowInit(most) /\ call = NoCall

\* the window's state after a handler
InstallWindow(s) ==
    LET t == Collect(s)
    IN  /\ file_queue' = t.file_queue
        /\ current_queue_index' = t.idx
        /\ queue_active' = t.queue_active
        /\ running' = t.running
        /\ all_hits' = t.all_hits
        /\ all_ranges' = t.all_ranges
        /\ hits' = t.hits
        /\ pending_hits' = t.pending_hits
        /\ stderr_buf' = t.stderr_buf
        /\ stdout_buf' = t.stdout_buf
        /\ video_duration_s' = t.video_duration_s
        /\ total_video_duration_s' = t.total_video_duration_s
        /\ flush_timer' = t.flush_timer
        /\ item_text' = t.item_text
        /\ progress_format' = t.progress_format
        /\ procs' = t.procs
        /\ probe_proc' = t.probe_proc
        /\ ffmpeg_proc' = t.ffmpeg_proc
        /\ hist' = t.hist
        /\ video_fps' = t.video_fps
        /\ analysis_start_time' = t.analysis_start_time
        /\ progress_max' = t.progress_max
        /\ progress_value' = t.progress_value
        /\ UNCHANGED <<file_list, min_run_spin, group_ranges_checkbox, now>>

\* the state after a handler
Install(s) == InstallWindow(s) /\ UNCHANGED call

\* on_start_or_cancel while idle: _start
StartPressed ==
    /\ ~running
    /\ file_list # <<>>
    /\ \E po \in ProbeStartOutcomes : Install(Start(St, file_list, po))
    /\ starts' = starts + 1
    /\ UNCHANGED <<timeouts, chunks>>

StartBatch == starts < MaxStarts /\ StartPressed

StartFirstBatch == starts = 0 /\ StartPressed

\* on_start_or_cancel while running: _cancel
UserCancel ==
    /\ running
    /\ Install(Cancel(St))
    /\ UNCHANGED <<starts, timeouts, chunks>>

\* a running process ends by itself, a probe in one of the given ways
ProcExitWith(results) ==
    \E p \in DOMAIN procs :
        /\ procs[p].st = "running"
        /\ \E r \in (IF procs[p].kind = "probe" THEN results
                      ELSE {<<c, "empty">> : c \in ExitCodes}) :
               procs' = [procs EXCEPT ![p].st = "exited", ![p].code = r[1], ![p].out = r[2]]
        /\ UNCHANGED <<file_list, file_queue, current_queue_index, queue_active,
                       running, all_hits, all_ranges, hits, pending_hits,
                       stderr_buf, stdout_buf, video_duration_s,
                       total_video_duration_s, flush_timer, item_text,
                       progress_format, probe_proc, ffmpeg_proc, min_run_spin,
                       group_ranges_checkbox, starts, timeouts, chunks, hist,
                       video_fps, analysis_start_time, progress_max,
                       progress_value, now, call>>

ProcExit == ProcExitWith(ProbeResults)

ProcExitAny == ProcExitWith(AllProbeResults)

\* the finished signal of probe p
ProbeFinishedOf(p) ==
    /\ procs[p].kind = "probe" /\ procs[p].st = "exited"
    /\ \E fo \in FfmpegStartOutcomes, po \in ProbeStartOutcomes :
           LET s0 == [St EXCEPT !.procs[p].st = "gone"]
               \* whether this run of the handler calls _run_ffmpeg
               launches == probe_proc # 0
                             /\ ~ProbeFailed(procs[p].code, Strip(s0.procs[probe_proc].out))
               timedout == launches /\ fo = "timeout"
           IN  /\ timedout => timeouts < MaxTimeouts
               /\ timeouts' = IF timedout THEN timeouts + 1 ELSE timeouts
               /\ Install(OnFfprobeFinished(s0, procs[p].path, procs[p].code, fo, po))
    /\ UNCHANGED <<starts, chunks>>

ProbeFinished == \E p \in DOMAIN procs : ProbeFinishedOf(p)

\* the finished signal of ffmpeg process p
FfmpegFinishedOf(p) ==
    /\ procs[p].kind = "ffmpeg" /\ procs[p].st = "exited"
    /\ \E po \in ProbeStartOutcomes :
           Install(OnFfmpegFinished([St EXCEPT !.procs[p].st = "gone"],
                                    procs[p].path, procs[p].code,
                                    min_run_spin, group_ranges_checkbox, po))
    /\ UNCHANGED <<starts, timeouts, chunks>>

FfmpegFinished == \E p \in DOMAIN procs : FfmpegFinishedOf(p)

\* readyReadStandardError: the handler reads from the object
\* self.ffmpeg_proc refers to, so only that object's data is ever taken up
\* (the data of any other object stays unread in it and changes nothing)
StderrChunk ==
    /\ ffmpeg_proc # 0
    /\ procs[ffmpeg_proc].st = "running"
    /\ chunks < MaxErrChunks
    /\ \E chunk \in ErrChunks : Install(OnFfmpegStderrChunk(St, chunk))
    /\ chunks' = chunks + 1
    /\ UNCHANGED <<starts, timeouts>>

\* what ffmpeg can write to standard output in one read
OutChunks == { <<ProgressEnd, NL>>, <<ProgressEnd>> }

\* readyReadStandardOutput, read like standard error from self.ffmpeg_proc
StdoutChunk ==
    /\ ffmpeg_proc # 0
    /\ procs[ffmpeg_proc].st = "running"
    /\ chunks < MaxErrChunks
    /\ \E chunk \in OutChunks : Install(OnFfmpegStdoutChunk(St, chunk))
    /\ chunks' = chunks + 1
    /\ UNCHANGED <<starts, timeouts>>

\* flush_timer.timeout
FlushTimerTimeout ==
    /\ flush_timer
    /\ pending_hits # <<>>
    /\ Install(FlushPendingHits(St).s)
    /\ UNCHANGED <<starts, timeouts, chunks>>

Init == InitWith(NumPaths)

Next ==
    \/ StartBatch
    \/ UserCancel
    \/ ProcExit
    \/ ProbeFinished
    \/ FfmpegFinished
    \/ StderrChunk
    \/ FlushTimerTimeout

Spec == Init /\ [][Next]_vars

\* a single batch of up to BatchFiles files
InitBatch == InitWith(BatchFiles)

NextBatch ==
    \/ StartFirstBatch
    \/ UserCancel
    \/ ProcExit
    \/ ProbeFinished
    \/ FfmpegFinished
    \/ StderrChunk
    \/ FlushTimerTimeout

SpecBatch == InitBatch /\ [][NextBatch]_vars

\* a single batch of up to BatchFiles files with every probe report and with the
\* progress output of ffmpeg
NextFile ==
    \/ StartFirstBatch
    \/ UserCancel
    \/ ProcExitAny
    \/ ProbeFinished
    \/ FfmpegFinished
    \/ StderrChunk
    \/ StdoutChunk
    \/ FlushTimerTimeout

SpecFile == InitBatch /\ [][NextFile]_vars

\* the progress output of ffmpeg: the values of out_time_ms, and what one read
\* of standard output can hold
OutTimes == {0, 1, 2500000, 6000000}

OutTime(v) == Pc("out_time_ms", v)

ProgressChunks ==
    {<<OutTime(v), NL>> : v \in OutTimes}
        \cup { <<ProgressEnd, NL>>, <<X, NL>>, <<OutTime(1), NL, OutTime(2500000), NL>> }

\* readyReadStandardOutput with progress output
ProgressChunk ==
    /\ ffmpeg_proc # 0
    /\ procs[ffmpeg_proc].st = "running"
    /\ chunks < MaxOutChunks
    /\ \E chunk \in ProgressChunks : Install(OnFfmpegStdoutChunk(St, chunk))
    /\ chunks' = chunks + 1
    /\ UNCHANGED <<starts, timeouts>>

\* the wall clock moves, forward or (when it is set) backward
TimePasses ==
    /\ \E t \in 0..MaxClock : t # now /\ now' = t
    /\ UNCHANGED <<file_list, file_queue, current_queue_index, queue_active,
                   running, all_hits, all_ranges, hits, pending_hits,
                   stderr_buf, stdout_buf, video_duration_s,
                   total_video_duration_s, flush_timer, item_text,
                   progress_format, procs, probe_proc, ffmpeg_proc, min_run_spin,
                   group_ranges_checkbox, starts, timeouts, chunks, hist,
                   video_fps, analysis_start_time, progress_max,
                   progress_value, call>>

\* how a probe ends in SpecProgress: exit code 0 and a report with a duration
\* of 5 s, 0.5 us, 1.5 us or 0, or without duration
ProgressResults ==
    {<<0, o>> : o \in {"full", "no_duration"} \cup DurationReports}

ProcExitProgress == ProcExitWith(ProgressResults)

\* a batch of up to ProgressFiles files with the progress output of ffmpeg
\* and the clock
NextProgress ==
    \/ StartFirstBatch
    \/ ProcExitProgress
    \/ ProbeFinished
    \/ FfmpegFinished
    \/ ProgressChunk
    \/ TimePasses

SpecProgress == InitWith(ProgressFiles) /\ [][NextProgress]_vars

\* how a probe ends in SpecRates: exit code 0 and a report with one of the
\* frame rates, or without streams
RateResults == {<<0, o>> : o \in {"full", "no_streams"} \cup RateReports}

ProcExitRates == ProcExitWith(RateResults)

\* a batch of up to BatchFiles files with every frame rate of the probe report
NextRates ==
    \/ StartFirstBatch
    \/ UserCancel
    \/ ProcExitRates
    \/ ProbeFinished
    \/ FfmpegFinished

SpecRates == InitBatch /\ [][NextRates]_vars

\* a process that started eventually exits, and the event loop delivers every
\* pending signal and timer tick; the user's clicks are not forced
FairBatch ==
    /\ SpecBatch
    /\ WF_vars(ProcExit)
    /\ WF_vars(ProbeFinished)
    /\ WF_vars(FfmpegFinished)
    /\ WF_vars(FlushTimerTimeout)


(***************************************************************************)
(* _split_complete_lines by itself: a stream over an ordinary character,   *)
(* carriage return and newline is fed chunk by chunk the way               *)
(* _on_ffmpeg_stderr_chunk does (buffer = remainder + chunk, lines 975-977)*)
(***************************************************************************)
RECURSIVE Texts(_)
\* the streams of up to n characters
Texts(n) ==
    IF n = 0 THEN {<<>>}
    ELSE LET shorter == Texts(n - 1)
         IN  shorter \cup {Append(s, c) : s \in shorter, c \in {X, CR, NL}}

\* rest: the stream still to come; fed: the stream read so far; cuts: the
\* lengths of the chunks; buf: the remainder kept; lines: the complete lines
\* returned so far; last: those of the latest call
SplitInit ==
    /\ WindowInit(1)
    /\ \E s \in Texts(MaxLen) :
           call = [fn |-> "split", rest |-> s, fed |-> <<>>, cuts |-> <<>>,
                   buf |-> <<>>, lines |-> <<>>, last |-> <<>>]

FeedChunk ==
    /\ call.fn = "split"
    /\ \E n \in 1..Len(call.rest) :
           LET chunk == SubSeq(call.rest, 1, n)
               r == SplitCompleteLines(call.buf \o chunk)
           IN  call' = [fn |-> "split",
                        rest |-> SubSeq(call.rest, n + 1, Len(call.rest)),
                        fed |-> call.fed \o chunk,
                        cuts |-> Append(call.cuts, n),
                        buf |-> r.rest,
                        lines |-> call.lines \o r.lines,
                        last |-> r.lines]
    /\ UNCHANGED window

SpecSplit == SplitInit /\ [][FeedChunk]_vars

(***************************************************************************)
(* build_ranges by itself, applied to a list of detections.                *)
(***************************************************************************)
\* the detection at frame f that is the i-th of its list: time_s tells the
\* detections of a list apart, the second one has no pblack, the third one
\* has a pblack of 0
Hit(f, i) ==
    [frame |-> f, time_s |-> i,
     pblack |-> IF i = 2 THEN None ELSE IF i = 3 THEN 0 ELSE 90 + f,
     pts |-> None]

HitsAt(frames) == [i \in 1..Len(frames) |-> Hit(frames[i], i)]

RECURSIVE FrameLists(_)
\* the lists of up to n frame numbers
FrameLists(n) ==
    IF n = 0 THEN {<<>>}
    ELSE LET shorter == FrameLists(n - 1)
         IN  shorter \cup {Append(s, f) : s \in shorter, f \in 1..MaxFrame}

\* the list of the spec's example
ExampleFrames == <<10, 11, 12, 15, 16>>

\* variant: the caller's list is sorted in place
HitsAfterBuildRanges_SortedInPlace(hs) == SortByFrame(hs)

\* the caller's list after build_ranges: sorted() works on a copy (line 172)
\* and finalize only reads the detections
HitsAfterBuildRanges(hs) == hs

\* hits: the caller's list; given: the list as it was before the first call;
\* out: the ranges returned by the latest call; first: those of the call
\* before it, once build_ranges has been called again
RangesInit ==
    /\ WindowInit(1)
    /\ \E fs \in FrameLists(MaxHits) \cup {ExampleFrames}, m \in 0..MaxMinRun :
           call = [fn |-> "ranges", hits |-> HitsAt(fs), given |-> HitsAt(fs),
                   m |-> m, done |-> FALSE, again |-> FALSE,
                   out |-> <<>>, first |-> <<>>]

\* build_ranges(hits, min_run_frames), called at most twice on the same list
CallBuildRanges ==
    /\ call.fn = "ranges" /\ ~call.again
    /\ call' = [call EXCEPT !.done = TRUE,
                            !.again = call.done,
                            !.first = call.out,
                            !.out = BuildRanges(call.hits, call.m),
                            !.hits = HitsAfterBuildRanges(call.hits)]
    /\ UNCHANGED window

SpecRanges == RangesInit /\ [][CallBuildRanges]_vars

(***************************************************************************)
(* The two streams of one analyze process, each read chunk by chunk in any *)
(* interleaving.                                                           *)
(***************************************************************************)
\* what ffmpeg writes to standard error: a detection, a line "x\r", a line
\* with the marker but no frame, a detection
ErrStream ==
    <<Marker, Pc("frame", 2), Pc("pblack", 98), NL, X, CR, NL,
      Marker, Pc("pblack", 98), NL, Marker, Pc("frame", 1), NL>>

\* what ffmpeg -progress writes to standard output: two blocks
OutStream ==
    <<OutTime(2500000), NL, X, NL, OutTime(6000000), NL, ProgressEnd, NL>>

\* what the handlers of standard error and of standard output work on
ErrView(s) == [hits |-> s.hits, stderr_buf |-> s.stderr_buf]

OutView(s) ==
    [stdout_buf |-> s.stdout_buf, progress_value |-> s.progress_value,
     progress_format |-> s.progress_format,
     progress_lines |-> s.hist.progress_lines, faults |-> s.hist.faults]

\* the state s with the given views
WithViews(s, e, o) ==
    [s EXCEPT !.hits = e.hits, !.stderr_buf = e.stderr_buf,
              !.stdout_buf = o.stdout_buf, !.progress_value = o.progress_value,
              !.progress_format = o.progress_format,
              !.hist.progress_lines = o.progress_lines, !.hist.faults = o.faults]

\* err and out: what is still to come on each stream; base: the views at the
\* first read; err_only and out_only: the view of standard error had only
\* the reads of standard error been handled since, and the same for standard
\* output
StreamsInit ==
    /\ WindowInit(1)
    /\ call = [fn |-> "streams", err |-> ErrStream, out |-> OutStream,
               fed |-> FALSE, base |-> NoCall,
               err_only |-> NoCall, out_only |-> NoCall]

\* the views before a read
Alone ==
    IF call.fed THEN call
    ELSE [call EXCEPT !.base = [e |-> ErrView(St), o |-> OutView(St)],
                      !.err_only = ErrView(St), !.out_only = OutView(St)]

\* readyReadStandardError with the next chunk of the stream
FeedErr ==
    /\ call.fn = "streams"
    /\ ffmpeg_proc # 0 /\ procs[ffmpeg_proc].st = "running"
    /\ \E n \in 1..Len(call.err) :
           LET chunk == SubSeq(call.err, 1, n)
               alone == WithViews(St, Alone.err_only, Alone.base.o)
           IN  /\ InstallWindow(OnFfmpegStderrChunk(St, chunk))
               /\ call' = [Alone EXCEPT
                              !.fed = TRUE,
                              !.err = SubSeq(call.err, n + 1, Len(call.err)),
                              !.err_only = ErrView(OnFfmpegStderrChunk(alone, chunk))]
    /\ UNCHANGED <<starts, timeouts, chunks>>

\* readyReadStandardOutput with the next chunk of the stream
FeedOut ==
    /\ call.fn = "streams"
    /\ ffmpeg_proc # 0 /\ procs[ffmpeg_proc].st = "running"
    /\ \E n \in 1..Len(call.out) :
           LET chunk == SubSeq(call.out, 1, n)
               alone == WithViews(St, Alone.base.e, Alone.out_only)
           IN  /\ InstallWindow(OnFfmpegStdoutChunk(St, chunk))
               /\ call' = [Alone EXCEPT
                              !.fed = TRUE,
                              !.out = SubSeq(call.out, n + 1, Len(call.out)),
                              !.out_only = OutView(OnFfmpegStdoutChunk(alone, chunk))]
    /\ UNCHANGED <<starts, timeouts, chunks>>

NextStreams ==
    \/ StartFirstBatch
    \/ ProcExit
    \/ ProbeFinished
    \/ FfmpegFinished
    \/ FeedErr
    \/ FeedOut
    \/ TimePasses

SpecStreams == StreamsInit /\ [][NextStreams]_vars


(***************************************************************************)
(* One batch whose range controls the user sets before the start, and      *)
(* whose detection lines arrive in any order of frames.                    *)
(***************************************************************************)
\* the user clicks group_ranges_checkbox, enabled while no batch runs
ToggleGroupRanges ==
    /\ ~running
    /\ group_ranges_checkbox' = ~group_ranges_checkbox
    /\ UNCHANGED <<file_list, file_queue, current_queue_index, queue_active,
                   running, all_hits, all_ranges, hits, pending_hits,
                   stderr_buf, stdout_buf, video_duration_s,
                   total_video_duration_s, flush_timer, item_text,
                   progress_format, procs, probe_proc, ffmpeg_proc, min_run_spin,
                   starts, timeouts, chunks, hist, video_fps,
                   analysis_start_time, progress_max, progress_value, now, call>>

\* the user sets min_run_spin, enabled while no batch runs and the box is
\* checked
ChangeMinRun ==
    /\ ~running /\ group_ranges_checkbox
    /\ \E m \in 1..MaxMinRun : m # min_run_spin /\ min_run_spin' = m
    /\ UNCHANGED <<file_list, file_queue, current_queue_index, queue_active,
                   running, all_hits, all_ranges, hits, pending_hits,
                   stderr_buf, stdout_buf, video_duration_s,
                   total_video_duration_s, flush_timer, item_text,
                   progress_format, procs, probe_proc, ffmpeg_proc,
                   group_ranges_checkbox, starts, timeouts, chunks, hist,
                   video_fps, analysis_start_time, progress_max, progress_value,
                   now, call>>

\* the detection line of frame f
DetectionLine(f) == <<Marker, Pc("frame", f), Pc("pblack", 90 + f), NL>>

\* readyReadStandardError with one detection line
DetectionArrives ==
    /\ ffmpeg_proc # 0
    /\ procs[ffmpeg_proc].st = "running"
    /\ chunks < MaxArrivals
    /\ \E f \in 1..ArrivalFrames : Install(OnFfmpegStderrChunk(St, DetectionLine(f)))
    /\ chunks' = chunks + 1
    /\ UNCHANGED <<starts, timeouts>>

NextGrouping ==
    \/ ToggleGroupRanges
    \/ ChangeMinRun
    \/ StartFirstBatch
    \/ ProcExit
    \/ ProbeFinished
    \/ FfmpegFinished
    \/ DetectionArrives

SpecGrouping == InitWith(GroupingFiles) /\ [][NextGrouping]_vars


(***************************************************************************)
(* One batch whose analyze processes write many detection lines in one     *)
(* read, up to and beyond what one flush takes.                            *)
(***************************************************************************)
\* n detection lines, of the frames 1..n
Burst(n) ==
    [i \in 1..(3 * n) |->
        <<Marker, Pc("frame", ((i - 1) \div 3) + 1), NL>>[((i - 1) % 3) + 1]]

\* the numbers of lines in one read
BurstSizes == {1, BatchLimit} \cup {BatchLimit + k : k \in 1..MaxOver}

\* readyReadStandardError with a burst of detection lines
BurstArrives ==
    /\ ffmpeg_proc # 0
    /\ procs[ffmpeg_proc].st = "running"
    /\ chunks < MaxBursts
    /\ \E n \in BurstSizes : Install(OnFfmpegStderrChunk(St, Burst(n)))
    /\ chunks' = chunks + 1
    /\ UNCHANGED <<starts, timeouts>>

NextBurst ==
    \/ StartFirstBatch
    \/ ProcExit
    \/ ProbeFinished
    \/ FfmpegFinished
    \/ BurstArrives
    \/ FlushTimerTimeout

SpecBurst == InitWith(BurstFiles) /\ [][NextBurst]_vars


(***************************************************************************)
(* _parse_blackframe_line by itself, applied to a line.                    *)
(***************************************************************************)
\* the keys of the optional fields and their attributes in BlackFrameHit
OptionalKeys == {"pblack", "pts", "t"}

\* what a line is made of: the marker, the four fields with the value 0 or 7,
\* and other text
LinePieces ==
    {Marker, X} \cup {Pc(k, v) : k \in OptionalKeys \cup {"frame"}, v \in {0, 7}}

RECURSIVE FieldLines(_)
\* the lines of up to n pieces in which no field comes twice
FieldLines(n) ==
    IF n = 0 THEN {<<>>}
    ELSE LET shorter == FieldLines(n - 1)
         IN  shorter \cup
                 {Append(s, c) : <<s, c>> \in
                     {sc \in shorter \X LinePieces :
                         \A i \in DOMAIN sc[1] : sc[1][i].k # sc[2].k}}

ParseInit ==
    /\ WindowInit(1)
    /\ \E line \in FieldLines(MaxFields) :
           call = [fn |-> "parse", line |-> line, done |-> FALSE, hit |-> NoHit]

CallParse ==
    /\ call.fn = "parse" /\ ~call.done
    /\ call' = [call EXCEPT !.done = TRUE, !.hit = ParseBlackframeLine(call.line)]
    /\ UNCHANGED window

SpecParse == ParseInit /\ [][CallParse]_vars


(***************************************************************************)
(* Properties.                                                             *)
(***************************************************************************)
\* the finished signal of process p is handled in this step
Delivered(p) ==
    /\ p \in DOMAIN procs
    /\ procs[p].st = "exited"
    /\ p \notin DOMAIN procs' \/ procs'[p].st = "gone"

\* a probe was launched for queue position i (0-based) in this step
ProbeLaunchedFor(i) ==
    /\ probe_proc' # probe_proc
    /\ procs'[probe_proc'].kind = "probe"
    /\ hist'.probed = Append(hist.probed, file_queue[i + 1])
    /\ progress_format' = Fmt("Probing", i + 1, Len(file_queue), 0, 0, 0)

\* the summary was produced in this step and the batch is no longer running
Finalized ==
    /\ ~running' /\ ~queue_active'
    /\ progress_format'.kind = "Done"
    /\ progress_format'.total = Len(file_queue)

\* C1: when the analyze process of the file at the current queue position
\* exits with a nonzero code while the batch is active, the handler records a
\* failed outcome for it (empty detections and ranges, the label FAILED) and
\* goes on: it starts the probe of the next position, or finalizes when the
\* file was the last one.  The batch never stops there.
C1_FailedAnalyzeStep ==
    \A p \in DOMAIN procs :
        ( /\ Delivered(p)
          /\ procs[p].kind = "ffmpeg"
          /\ procs[p].code # 0
          /\ queue_active )
        => LET path == procs[p].path
               k == current_queue_index
           IN  /\ k < Len(file_queue)
               /\ path \in DOMAIN all_hits' /\ all_hits'[path] = <<>>
               /\ path \in DOMAIN all_ranges' /\ all_ranges'[path] = <<>>
               /\ item_text'[k + 1] = "FAILED"
               /\ current_queue_index' = k + 1
               /\ IF k + 1 < Len(file_queue) THEN running' /\ ProbeLaunchedFor(k + 1)
                                            ELSE Finalized

\* the batch of three files of the spec: every probe and analyze started, no
\* cancel, and the analyze processes exited with 0, 1, 0
ThreeFileScenario ==
    /\ file_queue = <<1, 2, 3>>
    /\ ~hist.cancelled
    /\ timeouts = 0
    /\ hist.analyzed = <<1, 2, 3>>
    /\ hist.codes = <<0, 1, 0>>

C1_ThreeFilesStep ==
    (ThreeFileScenario /\ ~running)' =>
        /\ item_text' = <<"frames", "FAILED", "frames">>
        /\ progress_format'.kind = "Done"
        /\ progress_format'.frames = Len(all_hits'[1]) + Len(all_hits'[3])

C2_BatchAlwaysEnds == running ~> ~running

\* C3: at most one external process launched by the orchestrator is alive.
C3_OneProcessAlive ==
    Cardinality({p \in DOMAIN procs : procs[p].st = "running"}) <= 1

\* C4: while the batch shows as cancelled, the store holds no entry for the
\* interrupted file (the file at the position cancel() reported as not completed).
C4_NoOutcomeForInterruptedFile ==
    (progress_format.kind = "Cancelled" /\ progress_format.idx < Len(file_queue))
        => file_queue[progress_format.idx + 1] \notin DOMAIN all_hits

\* this step is _cancel
CancelStep == running /\ ~running' /\ ~hist.cancelled /\ hist'.cancelled

\* this step handles the finished signal of the process p, which the
\* cancel() of this batch killed
KilledCompletionStep(p) ==
    /\ Delivered(p) /\ procs[p].code = KillCode
    /\ hist.cancelled /\ procs[p].batch = hist.batch

\* the queue position (0-based) of a queued path
PositionOf(path) ==
    (CHOOSE j \in 1..Len(file_queue) : file_queue[j] = path) - 1

\* the entries of the files before queue position i (0-based) are kept
PriorEntriesKept(i) ==
    \A j \in 1..Min({i, Len(file_queue)}) :
        /\ file_queue[j] \in DOMAIN all_hits =>
               file_queue[j] \in DOMAIN all_hits'
                   /\ all_hits'[file_queue[j]] = all_hits[file_queue[j]]
        /\ file_queue[j] \in DOMAIN all_ranges =>
               file_queue[j] \in DOMAIN all_ranges'
                   /\ all_ranges'[file_queue[j]] = all_ranges[file_queue[j]]

\* C5: cancel() leaves the detections and ranges committed for the files
\* before the current queue position unchanged, and so does the completion
\* event of a process it killed for the files before that process's file.
C5_CancelKeepsCommitted ==
    [][/\ CancelStep => PriorEntriesKept(current_queue_index)
       /\ \A p \in DOMAIN procs :
              KilledCompletionStep(p) =>
                  PriorEntriesKept(PositionOf(procs[p].path))]_vars

\* cancelled while the second file was analyzed, its killed process has
\* completed, and the detections of the first file are still there
C5_Witness ==
    /\ progress_format.kind = "Cancelled" /\ progress_format.idx = 1
    /\ hist.cancelled /\ timeouts = 0
    /\ 2 \in DOMAIN hist.codes /\ hist.codes[2] = KillCode
    /\ 1 \in DOMAIN all_hits /\ all_hits[1] # <<>> /\ all_ranges[1] # <<>>
    /\ \A p \in DOMAIN procs : procs[p].st = "gone"

\* C6: after cancel() and until a new batch starts, the queue position does
\* not advance and no file is probed; only the interrupted file may be analyzed.
C6_NothingAdvancesAfterCancel ==
    [][(hist.cancelled /\ hist'.batch = hist.batch) =>
          /\ current_queue_index' = current_queue_index
          /\ hist'.probed = hist.probed]_vars

\* C7: _start leaves the store empty, the index 0 and the duration accumulator
\* 0, and the completion event of a process of an earlier batch never changes
\* the store of the new batch.
C7_NoResultsOfEarlierBatch ==
    [][/\ hist'.batch # hist.batch =>
              /\ all_hits' = <<>> /\ all_ranges' = <<>>
              /\ current_queue_index' = 0
              /\ total_video_duration_s' = 0
       /\ \A p \in DOMAIN procs :
              (Delivered(p) /\ procs[p].batch # hist.batch) =>
                  all_hits' = all_hits /\ all_ranges' = all_ranges]_vars

\* C8: when a batch has finished without being cancelled, every queued path
\* has a committed outcome, every file was probed once, in queue order, and
\* no file was analyzed twice or out of order.
C8_OneOutcomePerFile ==
    (progress_format.kind = "Done" /\ ~running /\ ~hist.cancelled) =>
        /\ \A i \in 1..Len(file_queue) : file_queue[i] \in DOMAIN all_hits
        /\ hist.probed = file_queue
        /\ \A i, j \in 1..Len(hist.analyzed) :
               i < j => hist.analyzed[i] < hist.analyzed[j]

\* the paths whose outcome was last committed with exit code 0
Succeeded == {p \in DOMAIN hist.codes : hist.codes[p] = 0}

\* this step handles the finished signal of the analyze process p, which
\* exited with a nonzero code
AnalyzeExitFailureStep(p) ==
    Delivered(p) /\ procs[p].kind = "ffmpeg" /\ procs[p].code # 0

\* C9: the step that handles a nonzero analyze exit commits an empty detection
\* list and an empty range list for the file, whatever had been parsed; a file
\* last committed that way has empty lists, and the totals of the summary, when
\* it is produced, are the sums over the succeeded files.
C9_FailedFileCommitsNothing ==
    [][/\ \A p \in DOMAIN procs :
              AnalyzeExitFailureStep(p) =>
                  /\ procs[p].path \in DOMAIN all_hits'
                  /\ all_hits'[procs[p].path] = <<>>
                  /\ all_ranges'[procs[p].path] = <<>>
       /\ \A q \in DOMAIN hist'.codes :
              hist'.codes[q] # 0 =>
                  q \in DOMAIN all_hits' /\ all_hits'[q] = <<>> /\ all_ranges'[q] = <<>>
       /\ (running /\ Finalized) =>
              /\ progress_format'.frames = SumLen(all_hits', Succeeded')
              /\ progress_format'.ranges = SumLen(all_ranges', Succeeded')]_vars

\* the probe of the file at queue position i (0-based) did not start
ProbeDidNotStart(i) ==
    /\ running
    /\ current_queue_index = i
    /\ progress_format.kind = "Probing"
    /\ probe_proc # 0 /\ procs[probe_proc].st = "gone"

\* C10: when the probe fails to start, a probe-failure outcome is recorded for
\* the file and the orchestrator advances.
C10_ProbeStartFailureRecorded ==
    \A i \in 0..(BatchFiles - 1) :
        ProbeDidNotStart(i) ~>
            (current_queue_index > i /\ file_queue[i + 1] \in DOMAIN all_hits)

\* this step handles the finished signal of the probe p while the batch is
\* active
ProbeExitStep(p) ==
    Delivered(p) /\ procs[p].kind = "probe" /\ queue_active

\* the handler of this step went on to the analyze step of path and did not
\* record a probe failure
AnalyzeStepRun(path) ==
    /\ hist'.analyzed = Append(hist.analyzed, path)
    /\ current_queue_index + 1 \in DOMAIN item_text'
    /\ item_text'[current_queue_index + 1] # "FAILED - probe"

\* the analyze process launched in this step is running, with the duration
\* unknown (indeterminate progress)
StartedWithUnknownDuration ==
    (procs'[ffmpeg_proc'].st = "running" /\ timeouts' = timeouts)
        => video_duration_s' = None

\* C11: when the probe of a file exits by itself with a nonzero code (having
\* written a report), the analyze step is still run for the file, with the
\* duration unknown, and no probe failure is recorded for it.
C11_ProbeExitCodeNotFatal ==
    [][\A p \in DOMAIN procs :
          ( /\ ProbeExitStep(p)
            /\ procs[p].code \in ExitCodes \ {0}
            /\ Strip(procs[p].out) # "empty" )
          => AnalyzeStepRun(procs[p].path) /\ StartedWithUnknownDuration]_vars

\* C12: when the probe of a file exits with code 0 and a report that is not
\* JSON, or has no duration, or has no streams, the analyze step is started
\* for the file with the duration unknown and no probe failure is recorded.
C12_DefectiveReportNotFatal ==
    [][\A p \in DOMAIN procs :
          ( /\ ProbeExitStep(p)
            /\ procs[p].code = 0
            /\ procs[p].out \in {"malformed", "no_duration", "no_streams"} )
          => AnalyzeStepRun(procs[p].path) /\ StartedWithUnknownDuration]_vars

\* in this step _run_ffmpeg was called and waitForStarted returned False
AnalyzeStartFailedStep ==
    /\ hist'.analyzed # hist.analyzed
    /\ procs'[ffmpeg_proc'].st = "gone" \/ timeouts' # timeouts

AnalyzeExitStep(p) ==
    Delivered(p) /\ procs[p].kind = "ffmpeg" /\ queue_active

\* C14: when the analyze process exits, the unterminated fragment left in the
\* standard output buffer is given to the progress parser as a final line, and
\* a detection line left without newline in the standard error buffer is among
\* the detections committed for a file that exits with code 0.
C14_BothRemaindersFlushed ==
    [][\A p \in DOMAIN procs :
          AnalyzeExitStep(p) =>
              /\ stdout_buf # <<>> =>
                     hist'.progress_lines =
                         Append(hist.progress_lines, RStripCR(stdout_buf))
              /\ ( /\ procs[p].code = 0
                   /\ stderr_buf # <<>>
                   /\ ParseBlackframeLine(RStripCR(stderr_buf)) # NoHit )
                 => /\ procs[p].path \in DOMAIN all_hits'
                    /\ \E i \in DOMAIN all_hits'[procs[p].path] :
                           all_hits'[procs[p].path][i] =
                               ParseBlackframeLine(RStripCR(stderr_buf))]_vars

RECURSIVE JoinLines(_)
\* the complete lines written back, each followed by a newline
JoinLines(ls) ==
    IF ls = <<>> THEN <<>> ELSE Head(ls) \o <<NL>> \o JoinLines(Tail(ls))

\* what the splitter has given back for the stream read so far
GivenBack == JoinLines(call.lines) \o call.buf

\* C15 as stated: the complete lines and the final remainder give back the
\* stream read so far exactly, but for a newline at its end.
C15_RoundTripExact ==
    call.fn = "split" =>
        \/ GivenBack = call.fed
        \/ GivenBack \o <<NL>> = call.fed
        \/ GivenBack = call.fed \o <<NL>>

\* seg without the carriage returns at its end
WithoutFinalCRs(seg) ==
    LET n == CHOOSE k \in 0..Len(seg) :
                 /\ k = 0 \/ seg[k] # CR
                 /\ \A j \in (k + 1)..Len(seg) : seg[j] = CR
    IN  SubSeq(seg, 1, n)

RECURSIVE Normalised(_, _)
\* the stream with every line of no character at all removed and the carriage
\* returns that end a line removed; seg is the line being read
Normalised(text, seg) ==
    IF text = <<>> THEN seg
    ELSE IF Head(text) = NL
         THEN (IF seg = <<>> THEN <<>> ELSE WithoutFinalCRs(seg) \o <<NL>>)
              \o Normalised(Tail(text), <<>>)
         ELSE Normalised(Tail(text), Append(seg, Head(text)))

\* C15 amended: for every stream and every way of cutting it into chunks, the
\* complete lines (each followed by a newline) and the final remainder give
\* back the stream read so far without its lines of no character and without
\* the carriage returns that end a line.
C15_RoundTripNormalised ==
    call.fn = "split" => GivenBack = Normalised(call.fed, <<>>)

\* "x\r\n" then "\nx" read in two chunks: the carriage return and the empty
\* line are gone, the partial last line is kept
C15_Witness ==
    /\ call.fn = "split" /\ call.rest = <<>>
    /\ call.fed = <<X, CR, NL, NL>> /\ call.cuts = <<3, 1>>
    /\ call.lines = << <<X>> >> /\ call.buf = <<>>

\* C16: feeding the chunks one after another gives the same complete lines and
\* the same remainder as one call on the whole stream read so far.
C16_ChunkingInvariant ==
    call.fn = "split" =>
        LET whole == SplitCompleteLines(call.fed)
        IN  call.lines = whole.lines /\ call.buf = whole.rest

\* a stream cut between a carriage return and its newline, and inside a line
C16_Witness ==
    /\ call.fn = "split" /\ call.rest = <<>>
    /\ call.fed = <<X, CR, NL, X>> /\ call.cuts = <<2, 1, 1>>
    /\ call.lines = << <<X>> >> /\ call.buf = <<X>>

\* C17: no complete line returned by the splitter is the empty string and none
\* ends in a carriage return.
C17_NoEmptyLineNoFinalCR ==
    call.fn = "split" =>
        \A i \in DOMAIN call.last :
            /\ call.last[i] # <<>>
            /\ call.last[i][Len(call.last[i])] # CR

\* the last position of the run of consecutive frames that starts at i
RunEnd(s, i) ==
    CHOOSE j \in i..Len(s) :
        /\ \A k \in i..(j - 1) : s[k + 1].frame = s[k].frame + 1
        /\ j = Len(s) \/ s[j + 1].frame # s[j].frame + 1

\* the maximal runs of consecutive frames of a frame-sorted list, as pairs of
\* first and last position
MaximalRuns(s) ==
    {<<i, RunEnd(s, i)>> : i \in {n \in 1..Len(s) :
                                    n = 1 \/ s[n].frame # s[n - 1].frame + 1}}

\* C18: every range returned by build_ranges has length_frames = end_frame -
\* start_frame + 1, end_frame >= start_frame, length_frames >= min_run_frames,
\* and length_frames is the number of detections of the run it was built from.
C18_RangeLengths ==
    (call.fn = "ranges" /\ call.done) =>
        LET s == SortByFrame(call.hits)
        IN  \A n \in DOMAIN call.out :
                LET r == call.out[n]
                IN  /\ r.length_frames = r.end_frame - r.start_frame + 1
                    /\ r.end_frame >= r.start_frame
                    /\ r.length_frames >= call.m
                    /\ \E run \in MaximalRuns(s) :
                           /\ s[run[1]].time_s = r.start_time_s
                           /\ s[run[2]].time_s = r.end_time_s
                           /\ r.length_frames = run[2] - run[1] + 1

\* frames 3, 1, 2 with min_run_frames 3: one range of three frames
C18_Witness ==
    /\ call.fn = "ranges" /\ call.done /\ call.m = 3
    /\ call.hits = HitsAt(<<3, 1, 2>>)
    /\ Len(call.out) = 1 /\ call.out[1].length_frames = 3

\* C19: the ranges returned by build_ranges are sorted by start frame and do
\* not overlap: each starts after the end of the one before.
C19_RangesDisjointSorted ==
    (call.fn = "ranges" /\ call.done) =>
        \A n \in 1..(Len(call.out) - 1) :
            call.out[n + 1].start_frame > call.out[n].end_frame

RECURSIVE RangesOfRuns(_, _, _)
\* one range for each maximal run from position i on that has at least m
\* frames, in order
RangesOfRuns(s, i, m) ==
    IF i > Len(s) THEN <<>>
    ELSE LET j == RunEnd(s, i)
         IN  (IF j - i + 1 >= m
              THEN << [start_frame |-> s[i].frame, end_frame |-> s[j].frame,
                       start_time_s |-> s[i].time_s, end_time_s |-> s[j].time_s,
                       length_frames |-> j - i + 1] >>
              ELSE <<>>)
             \o RangesOfRuns(s, j + 1, m)

\* the frames, times and length of the ranges returned
Outline(ranges) ==
    [n \in DOMAIN ranges |->
        [start_frame |-> ranges[n].start_frame, end_frame |-> ranges[n].end_frame,
         start_time_s |-> ranges[n].start_time_s, end_time_s |-> ranges[n].end_time_s,
         length_frames |-> ranges[n].length_frames]]

\* start, end and length of the ranges returned
Spans(ranges) ==
    [n \in DOMAIN ranges |->
        <<ranges[n].start_frame, ranges[n].end_frame, ranges[n].length_frames>>]

\* C20: build_ranges returns one range for each maximal run of consecutive
\* frames of the frame-sorted detections that has at least min_run_frames
\* frames, in order, with the frames and times of the run's first and last
\* detection; frames 10, 11, 12, 15, 16 give 10-12 and 15-16 for 1 and only
\* 10-12 for 3; the empty list gives no range.
C20_OneRangePerRun ==
    (call.fn = "ranges" /\ call.done) =>
        /\ Outline(call.out) = RangesOfRuns(SortByFrame(call.hits), 1, call.m)
        /\ (call.hits = HitsAt(ExampleFrames) /\ call.m = 1) =>
               Spans(call.out) = << <<10, 12, 3>>, <<15, 16, 2>> >>
        /\ (call.hits = HitsAt(ExampleFrames) /\ call.m = 3) =>
               Spans(call.out) = << <<10, 12, 3>> >>
        /\ call.hits = <<>> => call.out = <<>>

\* the example of the spec with min_run_frames 3
C20_Witness ==
    /\ call.fn = "ranges" /\ call.done /\ call.m = 3
    /\ call.hits = HitsAt(ExampleFrames)
    /\ Spans(call.out) = << <<10, 12, 3>> >>
    /\ call.out[1].start_time_s = 1 /\ call.out[1].end_time_s = 3

RunOf(s, r) ==
    LET i == CHOOSE n \in DOMAIN s : s[n].time_s = r.start_time_s
        j == CHOOSE n \in DOMAIN s : s[n].time_s = r.end_time_s
    IN  SubSeq(s, i, j)

RECURSIVE SumOf(_)
\* the sum of a list of numbers
SumOf(vals) == IF vals = <<>> THEN 0 ELSE Head(vals) + SumOf(Tail(vals))

\* the blackness values carried by the detections of a run, in order
ValuesOf(run) ==
    LET Carries(h) == h.pblack # None
        Value(h) == h.pblack
        with == SelectSeq(run, Carries)
    IN  [n \in DOMAIN with |-> Value(with[n])]

\* C22: for every range returned, avg_pblack is the sum of the values carried
\* by the detections of its run divided by the number of detections that
\* carry one, and min_pblack is the least of these values; both are absent
\* when no detection of the run carries a value.
C22_BlacknessOfPresentValues ==
    (call.fn = "ranges" /\ call.done) =>
        \A n \in DOMAIN call.out :
            LET r == call.out[n]
                vals == ValuesOf(RunOf(SortByFrame(call.hits), r))
            IN  IF vals = <<>>
                THEN r.avg_pblack = NoMean /\ r.min_pblack = None
                ELSE /\ r.avg_pblack = [sum |-> SumOf(vals), n |-> Len(vals)]
                     /\ r.min_pblack # None
                     /\ \E k \in DOMAIN vals : vals[k] = r.min_pblack
                     /\ \A k \in DOMAIN vals : vals[k] >= r.min_pblack

\* frames 2, 4, 1 where the second detection has no value and the third has
\* the value 0: the run 1-2 has the mean 92 / 2 and the minimum 0, the run of
\* frame 4 alone has neither
C22_Witness ==
    /\ call.fn = "ranges" /\ call.done /\ call.m = 1
    /\ call.hits = HitsAt(<<2, 4, 1>>)
    /\ Len(call.out) = 2
    /\ call.out[1].avg_pblack = [sum |-> 92, n |-> 2]
    /\ call.out[1].min_pblack = 0
    /\ call.out[2].avg_pblack = NoMean /\ call.out[2].min_pblack = None

\* in this step the progress parser is given the one line out_time_ms=v
OutTimeStep(v) ==
    hist'.progress_lines = Append(hist.progress_lines, <<OutTime(v)>>)

\* in this step the progress parser is given the one line progress=end
ProgressEndStep ==
    hist'.progress_lines = Append(hist.progress_lines, <<ProgressEnd>>)

\* floor(1000 * clamp(v / (d * 1e6), 0, 1)) for v microseconds and a duration
\* of d ticks
FractionPerMille(v, d) ==
    IF TicksPerMicro * v >= d THEN 1000 ELSE PerMille(Rate(TicksPerMicro * v, d))

\* C23: when the progress line out_time_ms=v is handled and the duration d of
\* the file is known and above 0, no division by zero is raised and the
\* progress value becomes floor(1000 * clamp(v / (d * 1e6), 0, 1)), which is
\* within 0..1000; v = 2500000 with d = 5 s gives 500.
C23_FractionOfDuration ==
    [][\A v \in OutTimes :
          (OutTimeStep(v) /\ DurationKnown(video_duration_s)) =>
              /\ hist'.faults = hist.faults
              /\ progress_value' = FractionPerMille(v, video_duration_s)
              /\ progress_value' \in 0..1000
              /\ (v = 2500000 /\ video_duration_s = Seconds(5)) =>
                     progress_value' = 500]_vars

\* the analyze process of the current file was confirmed started and runs
Analyzing ==
    /\ analysis_start_time # None
    /\ ffmpeg_proc # 0 /\ procs[ffmpeg_proc].st = "running"

\* C24: while the analyze process of a file whose duration is unknown or zero
\* runs, the progress bar is the busy bar, and a line out_time_ms or
\* progress=end given to the progress parser then changes neither the
\* progress value nor the format with the ETA and raises nothing.
C24_IndeterminateWithoutDuration ==
    [][/\ (Analyzing /\ ~DurationKnown(video_duration_s))' => progress_max' = 0
       /\ ( /\ ~DurationKnown(video_duration_s)
            /\ ProgressEndStep \/ \E v \in OutTimes : OutTimeStep(v) )
          => /\ progress_value' = progress_value
             /\ progress_format' = progress_format
             /\ hist'.faults = hist.faults]_vars

\* C25: when _update_progress_eta is called for the line out_time_ms=v, no
\* ETA is shown if the fraction is 0, the start time is not set or less than
\* 0.5 s have elapsed since the start; otherwise the format shows
\* elapsed / fraction - elapsed, floored at 0, as the time remaining, which is
\* never negative.
C25_EtaWhenWarm ==
    [][\A v \in OutTimes :
          ( /\ OutTimeStep(v)
            /\ DurationKnown(video_duration_s)
            /\ DurUs(video_duration_s) > 0 )
          => LET frac == Frac(v, DurUs(video_duration_s))
                 elapsed == now - analysis_start_time
                 whole == (elapsed * frac.den - elapsed * frac.num)
                              \div (QuartersPerSecond * frac.num)
             IN  IF frac.num <= 0 \/ analysis_start_time = None \/ 2 * elapsed < 1 * QuartersPerSecond
                 THEN progress_format' = progress_format
                 ELSE /\ progress_format'.kind = "Remaining"
                      /\ progress_format'.remaining = (IF whole < 0 THEN 0 ELSE whole)
                      /\ progress_format'.remaining >= 0]_vars

\* the frame-rate string of a report: avg_frame_rate, else r_frame_rate, else
\* none
RateString(out) ==
    IF AvgFrameRate(out) # NoField THEN AvgFrameRate(out) ELSE RFrameRate(out)

\* C26: when the probe handler reads (exit code 0) a report whose frame-rate
\* string is num/den, or that has no frame-rate field, the analyze step is run
\* for the file, and the frame rate of a started analysis is num/den when
\* den # 0 and undefined (not 0) when den = 0 or the field is missing.
C26_FrameRateOrUndefined ==
    [][\A p \in DOMAIN procs :
          ( /\ ProbeExitStep(p) /\ procs[p].code = 0 /\ probe_proc # 0
            /\ procs[probe_proc].out \in RateReports \cup {"full"} )
          => LET rate == RateString(procs[probe_proc].out)
             IN  /\ AnalyzeStepRun(procs[p].path)
                 /\ (procs'[ffmpeg_proc'].st = "running" /\ timeouts' = timeouts) =>
                        /\ rate # NoField /\ rate.den # 0 => video_fps' = rate
                        /\ rate = NoField \/ rate.den = 0 => video_fps' = NoRate
                        /\ video_fps' # Rate(0, 1) \/ rate = Rate(0, 1)]_vars

\* the third file is being analyzed after a report with a duration whose
\* frame rate is "0/0" or "30/0" or missing: the frame rate is undefined
C26_Witness ==
    /\ Len(file_queue) = 3 /\ current_queue_index = 2 /\ timeouts = 0
    /\ hist.analyzed = <<1, 2, 3>> /\ hist.faults = <<>>
    /\ ffmpeg_proc # 0 /\ procs[ffmpeg_proc].st = "running"
    /\ video_fps = NoRate /\ DurationKnown(video_duration_s)
    /\ item_text = <<"frames", "frames", "name">>

\* the line carries the detection marker and, after it, a frame field
IsDetectionLine(line) ==
    \E i, j \in DOMAIN line : i < j /\ line[i] = Marker /\ line[j].k = "frame"

\* the position of the frame field of a detection line
FramePosition(line) ==
    CHOOSE j \in DOMAIN line :
        line[j].k = "frame" /\ \E i \in 1..(j - 1) : line[i] = Marker

\* the value of the field k that follows the frame field of a detection line,
\* None when no such field follows it
FieldOf(line, k) ==
    LET at == {i \in DOMAIN line : i > FramePosition(line) /\ line[i].k = k}
    IN  IF at = {} THEN None ELSE line[CHOOSE i \in at : TRUE].v

\* C27: for a line with the marker and a frame field, the detection parsed
\* carries the frame and the value of each of pblack, pts and t that follows
\* the frame field, a value of 0 included, and None for each that does not, in
\* whatever order the fields stand.
C27_FieldsIndependent ==
    (call.fn = "parse" /\ call.done /\ IsDetectionLine(call.line)) =>
        /\ call.hit # NoHit
        /\ call.hit.frame = call.line[FramePosition(call.line)].v
        /\ call.hit.pblack = FieldOf(call.line, "pblack")
        /\ call.hit.pts = FieldOf(call.line, "pts")
        /\ call.hit.time_s = FieldOf(call.line, "t")

\* this step is a read of standard error, or of standard output, of the
\* analyze process, and the chunk it reads
ErrRead == call.fn = "streams" /\ call'.err # call.err
OutRead == call.fn = "streams" /\ call'.out # call.out
ErrChunkRead == SubSeq(call.err, 1, Len(call.err) - Len(call'.err))
OutChunkRead == SubSeq(call.out, 1, Len(call.out) - Len(call'.out))

\* the line has the shape of a progress line
IsProgressShape(line) == IsOutTime(line) \/ IsProgressEnd(line)

\* C28: the complete lines that are neither a detection line nor a progress
\* line are ignored: a read of standard error adds the detections of its
\* detection lines, in order, and nothing else, a read of standard output
\* leaves the progress value and format as its progress lines alone would,
\* and neither raises anything because of the other lines.
C28_UnknownLinesIgnored ==
    [][/\ ErrRead =>
              LET r == SplitCompleteLines(stderr_buf \o ErrChunkRead)
                  det == SelectSeq(r.lines, IsDetectionLine)
              IN  /\ hits' = hits \o [n \in DOMAIN det |-> ParseBlackframeLine(det[n])]
                  /\ progress_value' = progress_value
                  /\ progress_format' = progress_format
                  /\ hist'.faults = hist.faults
       /\ OutRead =>
              LET r == SplitCompleteLines(stdout_buf \o OutChunkRead)
                  known == ProgressLines([St EXCEPT !.stdout_buf = r.rest],
                                         SelectSeq(r.lines, IsProgressShape))
              IN  /\ hits' = hits
                  /\ progress_value' = known.progress_value
                  /\ progress_format' = known.progress_format
                  /\ hist'.faults = known.hist.faults]_vars

\* both streams read to the end: the two detections around the two lines that
\* are no detection, the progress at its end after the line that is no
\* progress line
C28_Witness ==
    /\ call.fn = "streams" /\ call.err = <<>> /\ call.out = <<>>
    /\ Len(hits) = 2 /\ hits[1].frame = 2 /\ hits[2].frame = 1
    /\ Len(hist.progress_lines) = 4 /\ hist.progress_lines[2] = <<X>>
    /\ progress_value = 1000 /\ progress_format.kind = "Finishing"
    /\ hist.faults = <<>>

\* C29: a read of standard output leaves the buffer of standard error and
\* the detections as they are, a read of standard error leaves the buffer of
\* standard output and the progress as they are, and after any interleaving
\* of reads the detections and the buffer of standard error are those of the
\* reads of standard error alone, the progress and the buffer of standard
\* output those of the reads of standard output alone.
C29_ChannelsIndependent ==
    [][/\ OutRead =>
              stderr_buf' = stderr_buf /\ hits' = hits /\ pending_hits' = pending_hits
       /\ ErrRead =>
              /\ stdout_buf' = stdout_buf
              /\ progress_value' = progress_value
              /\ progress_format' = progress_format
              /\ hist'.progress_lines = hist.progress_lines
       /\ (ErrRead \/ OutRead) =>
              /\ hits' = call'.err_only.hits
              /\ stderr_buf' = call'.err_only.stderr_buf
              /\ stdout_buf' = call'.out_only.stdout_buf
              /\ progress_value' = call'.out_only.progress_value
              /\ progress_format' = call'.out_only.progress_format
              /\ hist'.progress_lines = call'.out_only.progress_lines
              /\ hist'.faults = call'.out_only.faults]_vars

\* a line cut in the middle is kept for each stream, one detection and one
\* progress line have been handled
C29_Witness ==
    /\ call.fn = "streams"
    /\ stderr_buf = <<X>> /\ stdout_buf = <<X>>
    /\ Len(hits) = 1 /\ progress_value = 500
    /\ call.err_only.hits = hits /\ call.out_only.progress_value = 500

\* the finished signal of analyze process p, which ended with exit code 0, is
\* handled in this step and the file's result is committed
CommitOf(p) ==
    /\ Delivered(p)
    /\ procs[p].kind = "ffmpeg" /\ procs[p].code = 0
    /\ hist'.codes # hist.codes

\* the list is in ascending frame order
Ascending(hs) == \A i, j \in DOMAIN hs : i < j => hs[i].frame <= hs[j].frame

\* the two lists hold the same detections, each as many times
SameDetections(a, b) ==
    /\ Len(a) = Len(b)
    /\ \A i \in DOMAIN a :
           Cardinality({j \in DOMAIN a : a[j] = a[i]})
               = Cardinality({j \in DOMAIN b : b[j] = a[i]})

OwnFinish(p) ==
    /\ Delivered(p)
    /\ procs[p].kind = "ffmpeg" /\ p = ffmpeg_proc
    /\ running /\ current_queue_index < Len(file_queue)
    /\ procs[p].path = file_queue[current_queue_index + 1]

RECURSIVE RowsOf(_, _)
\* the detections of the rows labelled with the file, in table order
RowsOf(rows, file) ==
    IF rows = <<>> THEN <<>>
    ELSE (IF Head(rows).file = file THEN Head(rows).hits ELSE <<>>)
             \o RowsOf(Tail(rows), file)

\* the detections parsed for the current file once the text left in the
\* buffer of standard error is parsed too
ParsedAtExit ==
    hits \o (IF stderr_buf = <<>> THEN <<>> ELSE ParseLines(<<RStripCR(stderr_buf)>>))

\* C31: when the completion of a file's analyze process has been handled,
\* the rows added to the table for that file, batch after batch, are the
\* detections parsed for it, each once and in parse order, and no batch has
\* more than 500 rows, whatever the number of detections pending at exit.
C31_EveryDetectionDeliveredOnce ==
    [][\A p \in DOMAIN procs :
           OwnFinish(p) =>
               /\ RowsOf(hist'.rows, procs[p].path) = ParsedAtExit
               /\ \A i \in DOMAIN hist'.rows : Len(hist'.rows[i].hits) <= BatchLimit]_vars

\* C32: after cancel() and until the next batch starts, no process is
\* launched, neither a probe nor an analyze process; in particular the
\* completion of a probe that had exited with code 0 and a report before
\* cancel() launches no analyze process.
C32_NothingLaunchedAfterCancel ==
    [][(hist.cancelled /\ hist'.batch = hist.batch) =>
          /\ hist'.probed = hist.probed
          /\ hist'.analyzed = hist.analyzed
          /\ DOMAIN procs' = DOMAIN procs]_vars

\* p is the analyze process of the file at the current queue position,
\* launched by the batch that is running, and the one self.ffmpeg_proc
\* refers to
OwnProcess(p) ==
    /\ p # 0 /\ p = ffmpeg_proc
    /\ procs[p].kind = "ffmpeg" /\ procs[p].batch = hist.batch
    /\ queue_active /\ current_queue_index < Len(file_queue)
    /\ procs[p].path = file_queue[current_queue_index + 1]

\* C33: detections are added to the scratch list only from the output of
\* the current file's own analyze process; the completion of any other
\* process (one whose start timed out, one killed by cancel(), one of an
\* earlier file or batch) commits no detection under its path; and within a
\* batch an outcome once committed for a path is never replaced.
C33_OnlyOwnProcessCommits ==
    [][/\ Len(hits') > Len(hits) => OwnProcess(ffmpeg_proc)
       /\ \A p \in DOMAIN procs :
              (Delivered(p) /\ procs[p].kind = "ffmpeg" /\ ~OwnProcess(p)) =>
                  \A q \in DOMAIN all_hits' :
                      all_hits'[q] # <<>> => q \in DOMAIN all_hits /\ all_hits[q] = all_hits'[q]
       /\ hist'.batch = hist.batch =>
              \A q \in DOMAIN all_hits :
                  /\ q \in DOMAIN all_hits' /\ q \in DOMAIN all_ranges'
                  /\ all_hits'[q] = all_hits[q]
                  /\ all_ranges'[q] = all_ranges[q]]_vars

\* C34: the queue index stays within 0..len(queue), and no handler that
\* indexes the queue with it (the progress end marker, the ETA update, the
\* flush of the pending detections) finds it at or past the length of the
\* queue, which would raise IndexError.
C34_IndexWithinQueue ==
    [][/\ 0 <= current_queue_index' /\ current_queue_index' <= Len(file_queue')
       /\ hist'.batch = hist.batch =>
              \/ hist'.faults = hist.faults
              \/ hist'.faults[Len(hist'.faults)] # "IndexError"]_vars

====
